---- MODULE Spec2Model ----
(***************************************************************************)
(* ReceiptGenerator (src/dataset/receipt/detector_dataset_generator.py):   *)
(* the annotation-to-target encoding pipeline and the endless sampler.     *)
(*                                                                         *)
(* Numbers.  The code computes in binary64.  The model computes with exact *)
(* rationals <<numerator, denominator>> and draws its inputs from a domain *)
(* on which every binary64 operation of the pipeline is exact: pixel       *)
(* coordinates are integers, image sides are powers of two, anchors are    *)
(* dyadic, and the target sizes divide exactly by those image sides.  The  *)
(* one operation that is not exact on that domain, the reciprocal          *)
(* 1 / grid_size of line 86, is modelled with its binary64 rounding        *)
(* (Recip64Err).  Arrays are 0-based as in the code; a TLA+ sequence s     *)
(* holds the array element k at s[k + 1].                                  *)
(*                                                                         *)
(* numpy.  np.asarray of a ragged list builds an object array, as in the   *)
(* numpy releases the code was written against.                            *)
(***************************************************************************)
EXTENDS Integers, Sequences, FiniteSets, TLC

(* ------------------------------ bounds --------------------------------- *)
\* Image identifiers X1 .. X<MaxId> (single digits: the lexicographic order
\* of the file names is the numeric order of the identifiers).
MaxId == 2
\* Most lines in an annotation file of the one-image inputs.
MaxBoxes == 2

(* --------------------------- program constants ------------------------- *)
\* math.ceil(self.image_input_size[0] / 32)
Stride == 32
\* class_id = np.ones((len(bboxes), 1))
ClassId == 1
\* line[:8]
NumFields == 8

(* ------------------------------ rationals ------------------------------ *)
Abs(n) == IF n < 0 THEN -n ELSE n

RECURSIVE GCD(_, _)
GCD(a, b) == IF b = 0 THEN a ELSE GCD(b, a % b)

\* n / d in lowest terms with a positive denominator (d # 0).
Rat(n, d) ==
    LET g == GCD(Abs(n), Abs(d))
        s == IF d < 0 THEN -1 ELSE 1
    IN  <<(s * n) \div g, (s * d) \div g>>

RInt(k) == <<k, 1>>
RAdd(a, b) == Rat(a[1] * b[2] + b[1] * a[2], a[2] * b[2])
RSub(a, b) == Rat(a[1] * b[2] - b[1] * a[2], a[2] * b[2])
RMul(a, b) == Rat(a[1] * b[1], a[2] * b[2])
RDiv(a, b) == Rat(a[1] * b[2], a[2] * b[1])
RLess(a, b) == a[1] * b[2] < b[1] * a[2]
RLeq(a, b) == a[1] * b[2] <= b[1] * a[2]
\* min(a, b) of Python and np.minimum: b when b < a, else a.
RMin(a, b) == IF RLess(b, a) THEN b ELSE a
RFloor(a) == a[1] \div a[2]
RZero == RInt(0)
ROne == RInt(1)

(* ----------------------------- input domain ---------------------------- *)
Ids == 1..MaxId
\* dataset_dir: a directory name without and one with the text 'txt'.
DirNames == {"receipts", "txt"}
\* imagesize.get: (width, height) of an image file.
ImageDims == {<<4, 4>>, <<8, 8>>, <<8, 4>>}
\* The image sizes of the multi-image inputs.
DirectoryDims == {<<4, 4>>, <<8, 8>>}
\* image_input_size = (target_h, target_w).
InputSizes == {<<32, 32>>, <<48, 48>>, <<416, 416>>, <<4, 8>>}

\* Anchor catalogue (w, h) in normalised space; anchors 1 and 2 have the
\* same IoU against every square box.
Anchors ==
    << <<Rat(1, 8), Rat(1, 8)>>, <<Rat(1, 4), Rat(1, 8)>>,
       <<Rat(1, 8), Rat(1, 4)>>, <<Rat(1, 2), Rat(1, 4)>>,
       <<Rat(1, 2), Rat(1, 2)>>, <<Rat(1, 1), Rat(1, 1)>> >>
\* Masks coarse to fine: a partition of the catalogue, and masks that
\* neither cover it (3 is in none) nor are disjoint (4 is in two).
PartitionMasks == << <<4, 5>>, <<2, 3>>, <<0, 1>> >>
OverlapMasks == << <<4, 5>>, <<2, 4>>, <<0, 1>> >>
\* The configurations (image_input_size, anchor_masks) of the one-image
\* inputs.
Configs ==
    {<<size, PartitionMasks>> : size \in InputSizes}
        \union {<<<<32, 32>>, OverlapMasks>>}

\* Annotation lines: the leading numeric fields x1,y1,x2,y2,x3,y3,x4,y4.
Lines ==
    { <<0, 0, 2, 0, 2, 2, 0, 2>>,       \* 2 x 2 at the origin
      <<3, 3, 5, 3, 5, 5, 3, 5>>,       \* 2 x 2 centred at (4, 4)
      <<0, 0, 4, 0, 4, 4, 0, 4>>,       \* 4 x 4
      <<1, 0, 4, 1, 3, 4, 0, 3>>,       \* a rotated quadrilateral, extent 4 x 4
      <<2, 1, 2, 1, 2, 3, 2, 3>>,       \* zero width
      <<4, 0, 4, 0, 4, 4, 4, 4>>,       \* zero width on the line x = 4
      <<0, 1, 3, 1, 3, 2, 0, 2>>,       \* 3 x 1, centre (3/2, 3/2)
      <<1, 0, 2, 0, 2, 4, 1, 4>>,       \* 1 x 4
      <<3, 3, 4, 3, 4, 4, 3, 4>>,       \* 1 x 1
      <<2, 2, 8, 2, 8, 8, 2, 8>>,       \* 6 x 6, outside a 4 x 4 image
      <<0, 0, 2, 0, 2, 2, 0, 2, 7>>,    \* a ninth field, ignored
      <<0, 0, 2, 0, 2, 2>> }            \* six fields: cannot reshape to (4, 2)

\* Every annotation file of at most MaxBoxes lines.
Files == UNION {[1..n -> Lines] : n \in 0..MaxBoxes}
\* The annotation files of the multi-image inputs.
FileMenu ==
    { << <<0, 0, 2, 0, 2, 2, 0, 2>> >>,
      << <<3, 3, 5, 3, 5, 5, 3, 5>>, <<0, 1, 3, 1, 3, 2, 0, 2>> >>,
      << <<2, 1, 2, 1, 2, 3, 2, 3>> >> }

VARIABLES
    dataset_dir,       \* the directory given to __init__
    images,            \* the directory's X<id>.jpg files: id -> (width, height)
    annotations,       \* the directory's X<id>.txt files: id -> lines
    image_input_size,  \* self.image_input_size
    anchors,           \* self.anchors
    anchor_masks,      \* self.anchor_masks
    filenames,         \* self.filenames
    label_files,       \* self.label_files
    bboxes,            \* self.bboxes
    labels,            \* self.labels
    status,            \* "constructed", "ready" (set_dataset_info returned), "failed" (it raised)
    error,             \* the exception set_dataset_info or the generator raised
    gen,               \* the generator: "suspended" or "raised"
    sample,            \* the dict the generator yielded last
    f64_call,          \* a call of resize_label in binary64: its arguments
    f64_result         \* and what it returned

vars == <<dataset_dir, images, annotations, image_input_size, anchors,
          anchor_masks, filenames, label_files, bboxes, labels, status,
          error, gen, sample, f64_call, f64_result>>

(* ------------------------------ __init__ ------------------------------- *)
\* A path os.path.join(dataset_dir, 'X<id>.<ext>').
Path(dir, id, ext) == <<dir, id, ext>>

\* sorted([... for f in os.listdir(dataset_dir) if re.match(pattern, f)]):
\* the paths of the identifiers S with extension ext, ascending.
RECURSIVE SortedPaths(_, _, _)
SortedPaths(dir, S, ext) ==
    IF S = {} THEN <<>>
    ELSE LET m == CHOOSE x \in S : \A y \in S : x <= y
         IN  <<Path(dir, m, ext)>> \o SortedPaths(dir, S \ {m}, ext)

(* --------------------------- read_label_file --------------------------- *)
\* file.replace('txt', 'jpg'): every occurrence in the path, the directory
\* name included.
ReplaceTxtJpg(file) ==
    <<IF file[1] = "txt" THEN "jpg" ELSE file[1],
      file[2],
      IF file[3] = "txt" THEN "jpg" ELSE file[3]>>

\* Whether the image file exists for imagesize.get.
ImageExists(image_file) ==
    /\ image_file[1] = dataset_dir
    /\ image_file[3] = "jpg"
    /\ image_file[2] \in DOMAIN images

Min4(a, b, c, d) ==
    LET m(x, y) == IF y < x THEN y ELSE x IN m(m(m(a, b), c), d)
Max4(a, b, c, d) ==
    LET m(x, y) == IF y > x THEN y ELSE x IN m(m(m(a, b), c), d)

\* One line to [x_cen, y_cen, w, h] in pixels (lines 28-38).
ParseLine(line) ==
    LET x_min == Min4(line[1], line[3], line[5], line[7])
        x_max == Max4(line[1], line[3], line[5], line[7])
        y_min == Min4(line[2], line[4], line[6], line[8])
        y_max == Max4(line[2], line[4], line[6], line[8])
        w == x_max - x_min
        h == y_max - y_min
    IN  <<RAdd(RInt(x_min), Rat(w, 2)), RAdd(RInt(y_min), Rat(h, 2)),
          RInt(w), RInt(h)>>

\* ratio_w of resize_label.
RatioW(original_dim, input_size) ==
    LET img_h == original_dim[1]
        img_w == original_dim[2]
        target_h == input_size[1]
        target_w == input_size[2]
    IN  RDiv(RMin(Rat(target_w, img_w), Rat(target_h, img_h)), RInt(target_w))

\* The scale divided by the target's width where ratio_h has its height.
RatioHByWidth(original_dim, input_size) ==
    LET img_h == original_dim[1]
        img_w == original_dim[2]
        target_h == input_size[1]
        target_w == input_size[2]
    IN  RDiv(RMin(Rat(target_w, img_w), Rat(target_h, img_h)), RInt(target_w))

\* ratio_h of resize_label.
RatioH(original_dim, input_size) ==
    LET img_h == original_dim[1]
        img_w == original_dim[2]
        target_h == input_size[1]
        target_w == input_size[2]
    IN  RDiv(RMin(Rat(target_w, img_w), Rat(target_h, img_h)), RInt(target_h))

\* resize_label(label, original_dim) with self.image_input_size = input_size.
ResizeLabel(label, original_dim, input_size) ==
    LET ratio_w == RatioW(original_dim, input_size)
        ratio_h == RatioH(original_dim, input_size)
    IN  [i \in 1..Len(label) |->
            <<RMul(label[i][1], ratio_w), RMul(label[i][2], ratio_h),
              RMul(label[i][3], ratio_w), RMul(label[i][4], ratio_h)>>]

\* read_label_file(file): [err, out], out the rows [x, y, w, h, class].
ReadLabelFile(file) ==
    LET image_file == ReplaceTxtJpg(file)
    IN  IF ~ImageExists(image_file)
        THEN [err |-> "FileNotFoundError", out |-> <<>>]
        ELSE
          LET width == images[image_file[2]][1]
              height == images[image_file[2]][2]
              lines == annotations[file[2]]
          IN  IF \E i \in 1..Len(lines) : Len(lines[i]) < NumFields
              THEN [err |-> "ValueError", out |-> <<>>]
              ELSE IF Len(lines) = 0
              \* np.concatenate of shapes (0,) and (0, 1)
              THEN [err |-> "ValueError", out |-> <<>>]
              ELSE
                LET parsed == [i \in 1..Len(lines) |-> ParseLine(lines[i])]
                    resized == ResizeLabel(parsed, <<height, width>>,
                                           image_input_size)
                IN  [err |-> "none",
                     out |-> [i \in 1..Len(lines) |->
                                resized[i] \o <<RInt(ClassId)>>]]

(* --------------------------- transform_label --------------------------- *)
\* iou of one box shape against one anchor (lines 99-105).
IoU(box_w, box_h, anchor) ==
    LET anchor_area == RMul(anchor[1], anchor[2])
        box_area == RMul(box_w, box_h)
        intersection == RMul(RMin(box_w, anchor[1]), RMin(box_h, anchor[2]))
    IN  RDiv(intersection, RSub(RAdd(box_area, anchor_area), intersection))

\* ArgMaxFrom keeping the last position of the largest value.
RECURSIVE ArgMaxFromLast(_, _, _)
ArgMaxFromLast(values, i, best) ==
    IF i > Len(values) THEN best - 1
    ELSE IF RLeq(values[best], values[i])
         THEN ArgMaxFromLast(values, i + 1, i)
         ELSE ArgMaxFromLast(values, i + 1, best)

\* np.argmax: the scan keeps the first position of the largest value.
RECURSIVE ArgMaxFrom(_, _, _)
ArgMaxFrom(values, i, best) ==
    IF i > Len(values) THEN best - 1
    ELSE IF RLess(values[best], values[i])
         THEN ArgMaxFrom(values, i + 1, i)
         ELSE ArgMaxFrom(values, i + 1, best)

ArgMax(values) == ArgMaxFrom(values, 2, 1)

\* anchor_idx of one row of y_true: over the whole catalogue (line 106).
BestAnchor(row, catalogue) ==
    ArgMax([a \in 1..Len(catalogue) |-> IoU(row[3], row[4], catalogue[a])])

\* GridSize rounding down.
GridSizeFloor(input_size) == input_size[1] \div Stride

\* math.ceil(self.image_input_size[0] / 32)
GridSize(input_size) == -((-input_size[1]) \div Stride)

\* The largest k with 2^k <= n, for n >= 1.
FloorLog2(n) == CHOOSE k \in 0..30 : 2 ^ k <= n /\ n < 2 ^ (k + 1)

\* 2^n mod g, eight bits at a time.
RECURSIVE PowerOfTwoMod(_, _)
PowerOfTwoMod(n, g) ==
    IF n <= 8 THEN (2 ^ n) % g
    ELSE (256 * PowerOfTwoMod(n - 8, g)) % g

\* The sign of fl(1 / g) - 1 / g, fl rounding to the nearest binary64.
\* The first of the 53 significant bits of 1 / g has weight
\* 2^-(FloorLog2(g) + 1), so what 53 bits leave of 1 / g is r / g units in
\* the last place, r = 2^(FloorLog2(g) + 53) mod g; r = 0 when g is a power
\* of two and never half of g otherwise.
Recip64Err(g) ==
    LET r == PowerOfTwoMod(FloorLog2(g) + 52 + 1, g)
    IN  IF r = 0 THEN 0 ELSE IF 2 * r > g THEN 1 ELSE -1

\* x // (1 / grid_size) of line 86, for x >= 0: the floor of x / fl(1 / g).
\* fl(1 / g) differs from 1 / g by less than one part in 2^53, so the
\* quotient falls short of x * g only when x * g is a whole number and the
\* reciprocal was rounded up.
FloorDivide(x, grid_size) ==
    LET q == RMul(x, RInt(grid_size))
    IN  IF q[2] = 1 /\ q[1] >= 1 /\ Recip64Err(grid_size) > 0
        THEN q[1] - 1
        ELSE RFloor(q)

\* np.zeros((grid_size, grid_size, n, 6)): the shape, and the entries
\* written so far by index (cell_y, cell_x, slot); every other entry is 0.
Zeros(grid_size, n) == [shape |-> <<grid_size, grid_size, n, 6>>, cells |-> <<>>]

ZeroEntry == <<RZero, RZero, RZero, RZero, RZero, RZero>>

\* t[cy][cx][slot]
At(t, cy, cx, slot) ==
    IF <<cy, cx, slot>> \in DOMAIN t.cells THEN t.cells[<<cy, cx, slot>>]
    ELSE ZeroEntry

\* t[cy][cx][slot] = entry
Store(t, cy, cx, slot, entry) ==
    [t EXCEPT !.cells =
        [k \in (DOMAIN t.cells) \union {<<cy, cx, slot>>} |->
            IF k = <<cy, cx, slot>> THEN entry ELSE t.cells[k]]]

\* np.where(anchor_eq)[0][0]: the first position of idx in the mask.
SlotOf(anchor_idxs, idx) ==
    (CHOOSE s \in 1..Len(anchor_idxs) :
        /\ anchor_idxs[s] = idx
        /\ \A t \in 1..(s - 1) : anchor_idxs[t] # idx) - 1

\* The entry written for one row (line 90).
EntryOf(row) == <<row[1], row[2], row[3], row[4], ROne, row[5]>>

\* ScatterFrom testing the mask against the class column, y_true[i][4],
\* instead of the anchor column.
RECURSIVE ScatterFromClassColumn(_, _, _, _, _)
ScatterFromClassColumn(y_true, grid_size, anchor_idxs, i, acc) ==
    IF i > Len(y_true) \/ acc.err # "none" THEN acc
    ELSE
      LET row == y_true[i]
          idx == row[5][1]
          any == \E s \in 1..Len(anchor_idxs) : anchor_idxs[s] = idx
          cell_x == FloorDivide(row[1], grid_size)
          cell_y == FloorDivide(row[2], grid_size)
      IN  IF ~any
          THEN ScatterFromClassColumn(y_true, grid_size, anchor_idxs, i + 1, acc)
          ELSE IF cell_x >= grid_size \/ cell_y >= grid_size
          THEN [acc EXCEPT !.err = "IndexError"]
          ELSE ScatterFromClassColumn(y_true, grid_size, anchor_idxs, i + 1,
                   [acc EXCEPT !.out =
                       Store(acc.out, cell_y, cell_x,
                             SlotOf(anchor_idxs, idx), EntryOf(row))])

\* ScatterFrom leaving an index (cell_y, cell_x, slot) that is already
\* written as it is.
RECURSIVE ScatterFromKeepFirst(_, _, _, _, _)
ScatterFromKeepFirst(y_true, grid_size, anchor_idxs, i, acc) ==
    IF i > Len(y_true) \/ acc.err # "none" THEN acc
    ELSE
      LET row == y_true[i]
          any == \E s \in 1..Len(anchor_idxs) : anchor_idxs[s] = row[6]
          cell_x == FloorDivide(row[1], grid_size)
          cell_y == FloorDivide(row[2], grid_size)
      IN  IF ~any
          THEN ScatterFromKeepFirst(y_true, grid_size, anchor_idxs, i + 1, acc)
          ELSE IF cell_x >= grid_size \/ cell_y >= grid_size
          THEN [acc EXCEPT !.err = "IndexError"]
          ELSE IF <<cell_y, cell_x, SlotOf(anchor_idxs, row[6])>>
                    \in DOMAIN acc.out.cells
          THEN ScatterFromKeepFirst(y_true, grid_size, anchor_idxs, i + 1, acc)
          ELSE ScatterFromKeepFirst(y_true, grid_size, anchor_idxs, i + 1,
                   [acc EXCEPT !.out =
                       Store(acc.out, cell_y, cell_x,
                             SlotOf(anchor_idxs, row[6]), EntryOf(row))])

\* The loop of transform_targets_for_output from row i on (lines 76-90);
\* acc is [err, out]; an index outside the grid raises IndexError.
RECURSIVE ScatterFrom(_, _, _, _, _)
ScatterFrom(y_true, grid_size, anchor_idxs, i, acc) ==
    IF i > Len(y_true) \/ acc.err # "none" THEN acc
    ELSE
      LET row == y_true[i]
          any == \E s \in 1..Len(anchor_idxs) : anchor_idxs[s] = row[6]
          cell_x == FloorDivide(row[1], grid_size)
          cell_y == FloorDivide(row[2], grid_size)
      IN  IF ~any
          THEN ScatterFrom(y_true, grid_size, anchor_idxs, i + 1, acc)
          ELSE IF cell_x >= grid_size \/ cell_y >= grid_size
          THEN [acc EXCEPT !.err = "IndexError"]
          ELSE ScatterFrom(y_true, grid_size, anchor_idxs, i + 1,
                   [acc EXCEPT !.out =
                       Store(acc.out, cell_y, cell_x,
                             SlotOf(anchor_idxs, row[6]), EntryOf(row))])

\* transform_targets_for_output(y_true, grid_size, anchor_idxs): [err, out].
TransformTargetsForOutput(y_true, grid_size, anchor_idxs) ==
    ScatterFrom(y_true, grid_size, anchor_idxs, 1,
                [err |-> "none", out |-> Zeros(grid_size, Len(anchor_idxs))])

\* y_train: every row of y_true with its anchor index appended (line 109).
MatchAnchors(y_true) ==
    [i \in 1..Len(y_true) |-> y_true[i] \o <<BestAnchor(y_true[i], anchors)>>]

\* The loop over self.anchor_masks from mask k on (lines 111-113).
RECURSIVE EncodeFrom(_, _, _, _)
EncodeFrom(y_train, grid_size, k, acc) ==
    IF k > Len(anchor_masks) \/ acc.err # "none" THEN acc
    ELSE
      LET t == TransformTargetsForOutput(y_train, grid_size, anchor_masks[k])
      IN  EncodeFrom(y_train, grid_size * 2, k + 1,
                     [err |-> t.err,
                      out |-> IF t.err = "none" THEN Append(acc.out, t.out)
                              ELSE acc.out])

\* transform_label(y_true): [err, out], out the list y_outs.
TransformLabel(y_true) ==
    EncodeFrom(MatchAnchors(y_true), GridSize(image_input_size), 1,
               [err |-> "none", out |-> <<>>])

(* ------------------------------ set_labels ----------------------------- *)
\* The first exception of a list of results, in order.
FirstError(results) ==
    IF \A k \in 1..Len(results) : results[k].err = "none" THEN "none"
    ELSE results[CHOOSE k \in 1..Len(results) :
                    /\ results[k].err # "none"
                    /\ \A j \in 1..(k - 1) : results[j].err = "none"].err

\* set_labels(): [err, bboxes, labels].
SetLabels ==
    LET reads == [k \in 1..Len(label_files) |-> ReadLabelFile(label_files[k])]
    IN  IF FirstError(reads) # "none"
        THEN [err |-> FirstError(reads), bboxes |-> <<>>, labels |-> <<>>]
        ELSE
          LET outs == [k \in 1..Len(reads) |-> TransformLabel(reads[k].out)]
          IN  IF FirstError(outs) # "none"
              THEN [err |-> FirstError(outs), bboxes |-> <<>>, labels |-> <<>>]
              ELSE [err |-> "none",
                    bboxes |-> [k \in 1..Len(reads) |-> reads[k].out],
                    labels |-> [k \in 1..Len(outs) |-> outs[k].out]]

(* ------------------------------- states -------------------------------- *)
\* The state __init__ leaves, for one directory and one configuration.
Constructed(dir, imgs, anns, size, masks) ==
    /\ dataset_dir = dir
    /\ images = imgs
    /\ annotations = anns
    /\ image_input_size = size
    /\ anchors = Anchors
    /\ anchor_masks = masks
    /\ filenames = SortedPaths(dir, DOMAIN imgs, "jpg")
    /\ label_files = SortedPaths(dir, DOMAIN anns, "txt")
    /\ bboxes = <<>>
    /\ labels = <<>>
    /\ status = "constructed"
    /\ error = "none"
    /\ gen = "suspended"
    /\ sample = <<>>
    /\ f64_call = <<>>
    /\ f64_result = <<>>

\* Any directory of images and annotation files X1 .. X<MaxId>.
InitDirectory ==
    \E dir \in DirNames, I \in SUBSET Ids, L \in SUBSET Ids :
        \E imgs \in [I -> DirectoryDims], anns \in [L -> FileMenu] :
            Constructed(dir, imgs, anns, <<32, 32>>, PartitionMasks)

\* One image with any annotation file, under every configuration.
InitOneImage ==
    \E dims \in ImageDims, file \in Files, config \in Configs :
        Constructed("receipts", [i \in {1} |-> dims], [i \in {1} |-> file],
                    config[1], config[2])

Init == InitDirectory \/ InitOneImage

\* set_dataset_info()
SetDatasetInfo ==
    /\ status = "constructed"
    /\ LET r == SetLabels
       IN  IF r.err = "none"
           THEN /\ bboxes' = r.bboxes
                /\ labels' = r.labels
                /\ status' = "ready"
                /\ error' = error
           ELSE /\ status' = "failed"
                /\ error' = r.err
                /\ UNCHANGED <<bboxes, labels>>
    /\ UNCHANGED <<dataset_dir, images, annotations, image_input_size,
                   anchors, anchor_masks, filenames, label_files, gen,
                   sample, f64_call, f64_result>>

\* One pull from gen_next_pair(), after set_dataset_info() as in main().
GenNextPair ==
    /\ status = "ready"
    /\ gen = "suspended"
    /\ IF Len(filenames) = 0
       \* np.random.randint(0, 0)
       THEN gen' = "raised" /\ error' = "ValueError" /\ sample' = sample
       ELSE \E index \in 0..(Len(filenames) - 1) :
              IF index >= Len(labels)
              \* self.labels[index]
              THEN gen' = "raised" /\ error' = "IndexError" /\ sample' = sample
              ELSE /\ gen' = gen
                   /\ error' = error
                   /\ sample' = << [index |-> index,
                                    image |-> filenames[index + 1],
                                    scale_1_label |-> labels[index + 1][1],
                                    scale_2_label |-> labels[index + 1][2],
                                    scale_3_label |-> labels[index + 1][3]] >>
    /\ UNCHANGED <<dataset_dir, images, annotations, image_input_size,
                   anchors, anchor_masks, filenames, label_files, bboxes,
                   labels, status, f64_call, f64_result>>

Next == SetDatasetInfo \/ GenNextPair

Spec == Init /\ [][Next]_vars

(* ----------------------- resize_label in binary64 ---------------------- *)
\* A positive binary64 number is [m, e]: the 53 bits m of its significand,
\* most significant first, and the exponent e of the last of them; its
\* value is m * 2^e.  Zero is [m |-> <<>>, e |-> 0].

\* The bits of a natural number, most significant first.
RECURSIVE BitsOf(_)
BitsOf(n) == IF n = 0 THEN <<>> ELSE Append(BitsOf(n \div 2), n % 2)

ZeroBits(k) == [i \in 1..k |-> 0]

\* A bit sequence whose length is a multiple of 8 as bytes, and back.
BytesOf(bits) ==
    [j \in 1..(Len(bits) \div 8) |->
        bits[8 * j - 7] * 128 + bits[8 * j - 6] * 64 + bits[8 * j - 5] * 32
        + bits[8 * j - 4] * 16 + bits[8 * j - 3] * 8 + bits[8 * j - 2] * 4
        + bits[8 * j - 1] * 2 + bits[8 * j]]
BitsOfBytes(bytes) ==
    [i \in 1..(8 * Len(bytes)) |->
        (bytes[(i - 1) \div 8 + 1] \div (2 ^ (7 - ((i - 1) % 8)))) % 2]

\* A bit sequence with a 1 in it, from its first 1 on.
FromFirstOne(bits) ==
    SubSeq(bits,
           CHOOSE j \in 1..Len(bits) :
               bits[j] = 1 /\ \A i \in 1..(j - 1) : bits[i] = 0,
           Len(bits))

\* bits + 1
IncBits(bits) ==
    IF \A i \in 1..Len(bits) : bits[i] = 1
    THEN <<1>> \o ZeroBits(Len(bits))
    ELSE LET p == CHOOSE j \in 1..Len(bits) :
                      bits[j] = 0 /\ \A i \in (j + 1)..Len(bits) : bits[i] = 1
         IN  [i \in 1..Len(bits) |->
                IF i < p THEN bits[i] ELSE IF i = p THEN 1 ELSE 0]

\* Round to nearest, ties to even: the binary64 number nearest to
\* bits * 2^e (bits[1] = 1), sticky telling of a remainder below its last bit.
F64Round(bits, e, sticky) ==
    LET L == Len(bits)
    IN  IF L <= 52 + 1
        THEN [m |-> bits \o ZeroBits(52 + 1 - L), e |-> e - (52 + 1 - L)]
        ELSE
          LET head == SubSeq(bits, 1, 52 + 1)
              rest == sticky \/ \E i \in (52 + 3)..L : bits[i] = 1
              up == bits[52 + 2] = 1 /\ (rest \/ head[52 + 1] = 1)
              inc == IF up THEN IncBits(head) ELSE head
          IN  IF Len(inc) > 52 + 1
              THEN [m |-> SubSeq(inc, 1, 52 + 1), e |-> e + (L - 52 - 1) + 1]
              ELSE [m |-> inc, e |-> e + (L - 52 - 1)]

\* Long division of the bytes num by d < 2^23, from byte j on with the
\* remainder r: the quotient's bytes and the last remainder.
RECURSIVE DivBytes(_, _, _, _)
DivBytes(num, d, j, r) ==
    IF j > Len(num) THEN [q |-> <<>>, rem |-> r]
    ELSE LET rest == DivBytes(num, d, j + 1, (256 * r + num[j]) % d)
         IN  [q |-> <<(256 * r + num[j]) \div d>> \o rest.q, rem |-> rest.rem]

\* a / d for a binary64 number a > 0 and an integer d, 0 < d < 2^23: the
\* quotient of a.m followed by zeros, 72 bits beyond a.m's at least, rounded.
F64DivInt(a, d) ==
    LET L == Len(a.m)
        T == 8 * ((L + 79) \div 8)
        Q == DivBytes(BytesOf(a.m \o ZeroBits(T - L)), d, 1, 0)
    IN  F64Round(FromFirstOne(BitsOfBytes(Q.q)), a.e + L - T, Q.rem # 0)

\* n / d for integers n > 0, d > 0 (Python's true division).
F64IntDiv(n, d) == F64DivInt([m |-> BitsOf(n), e |-> 0], d)

\* bytes * k from byte j down, with a carry: the product's bits.
RECURSIVE MulBytes(_, _, _, _)
MulBytes(bytes, k, j, carry) ==
    IF j = 0 THEN BitsOf(carry)
    ELSE MulBytes(bytes, k, j - 1, (bytes[j] * k + carry) \div 256)
            \o BitsOfBytes(<<(bytes[j] * k + carry) % 256>>)

\* a * (k2 / 2) for a binary64 number a > 0 and a pixel quantity k2 / 2.
F64MulHalves(a, k2) ==
    IF k2 = 0 THEN [m |-> <<>>, e |-> 0]
    ELSE LET bytes == BytesOf(ZeroBits(3) \o a.m)
         IN  F64Round(FromFirstOne(MulBytes(bytes, k2, Len(bytes), 0)),
                      a.e - 1, FALSE)

\* a < b for positive binary64 numbers.
F64Less(a, b) ==
    \/ a.e < b.e
    \/ /\ a.e = b.e
       /\ \E i \in 1..(52 + 1) :
            /\ a.m[i] < b.m[i]
            /\ \A j \in 1..(i - 1) : a.m[j] = b.m[j]

\* min(a, b)
F64Min(a, b) == IF F64Less(b, a) THEN b ELSE a

\* resize_label on one row of pixel quantities in halves, label2 =
\* 2 * [x_cen, y_cen, w, h], in binary64 (lines 51-60).
ResizeLabel64(label2, original_dim, input_size) ==
    LET img_h == original_dim[1]
        img_w == original_dim[2]
        target_h == input_size[1]
        target_w == input_size[2]
        scale == F64Min(F64IntDiv(target_w, img_w), F64IntDiv(target_h, img_h))
        ratio_w == F64DivInt(scale, target_w)
        ratio_h == F64DivInt(scale, target_h)
    IN  <<F64MulHalves(ratio_w, label2[1]), F64MulHalves(ratio_h, label2[2]),
          F64MulHalves(ratio_w, label2[3]), F64MulHalves(ratio_h, label2[4])>>

\* Image sides and target sizes of the binary64 calls.
Sides64 == {3, 8, 85, 100, 416}
InputSizes64 == {<<416, 416>>, <<32, 32>>}

\* The rows [x_cen, y_cen, w, h] * 2 of boxes inside a width x height
\* image: the whole image, its left half, its lower right quarter.
Rows64(width, height) ==
    { <<width, height, 2 * width, 2 * height>>,
      <<width \div 2, height, 2 * (width \div 2), 2 * height>>,
      <<width + (width \div 2), height + (height \div 2),
        2 * (width - (width \div 2)), 2 * (height - (height \div 2))>> }

\* A call resize_label(label, [height, width]) about to be made.
InitBinary64 ==
    /\ dataset_dir = "receipts"
    /\ images = <<>>
    /\ annotations = <<>>
    /\ anchors = Anchors
    /\ anchor_masks = PartitionMasks
    /\ filenames = <<>>
    /\ label_files = <<>>
    /\ bboxes = <<>>
    /\ labels = <<>>
    /\ status = "constructed"
    /\ error = "none"
    /\ gen = "suspended"
    /\ sample = <<>>
    /\ \E size \in InputSizes64, width \in Sides64, height \in Sides64 :
         \E row \in Rows64(width, height) :
            /\ image_input_size = size
            /\ f64_call = <<[label2 |-> row, original_dim |-> <<height, width>>]>>
    /\ f64_result = <<>>

\* resize_label returns.
ResizeLabelReturns ==
    /\ f64_call # <<>>
    /\ f64_result = <<>>
    /\ f64_result' = <<ResizeLabel64(f64_call[1].label2,
                                     f64_call[1].original_dim,
                                     image_input_size)>>
    /\ UNCHANGED <<dataset_dir, images, annotations, image_input_size,
                   anchors, anchor_masks, filenames, label_files, bboxes,
                   labels, status, error, gen, sample, f64_call>>

NextBinary64 == ResizeLabelReturns

SpecBinary64 == InitBinary64 /\ [][NextBinary64]_vars

(* ------------------------------- claims -------------------------------- *)
\* The label files by position, the rows and the tensors of file k.
FileNos == 1..Len(labels)
Scales == 1..Len(anchor_masks)
InMask(idx, mask) == \E t \in 1..Len(mask) : mask[t] = idx
\* The entries a tensor holds that are not zero.
Written(t) == DOMAIN t.cells
\* Whether tensor t holds the entry of row somewhere.
HoldsRow(t, row) ==
    \E key \in Written(t) :
        t.cells[key] = <<row[1], row[2], row[3], row[4], ROne, row[5]>>
\* The masks are pairwise disjoint and cover the catalogue.
MasksPartition ==
    \A a \in 0..(Len(anchors) - 1) :
        Cardinality({s \in Scales : InMask(a, anchor_masks[s])}) = 1
\* The shape-only IoU of the specification, written out.
ShapeIoU(w, h, aw, ah) ==
    LET inter == RMul(IF RLess(w, aw) THEN w ELSE aw,
                      IF RLess(h, ah) THEN h ELSE ah)
        union == RSub(RAdd(RMul(w, h), RMul(aw, ah)), inter)
    IN  RDiv(inter, union)
\* a is the lowest index of largest IoU against (w, h) in the catalogue.
IsLowestBest(a, w, h) ==
    /\ a \in 0..(Len(anchors) - 1)
    /\ \A j \in 0..(Len(anchors) - 1) :
         /\ RLeq(ShapeIoU(w, h, anchors[j + 1][1], anchors[j + 1][2]),
                 ShapeIoU(w, h, anchors[a + 1][1], anchors[a + 1][2]))
         /\ j < a =>
              RLess(ShapeIoU(w, h, anchors[j + 1][1], anchors[j + 1][2]),
                    ShapeIoU(w, h, anchors[a + 1][1], anchors[a + 1][2]))
Positive(row) == RLess(RZero, row[3]) /\ RLess(RZero, row[4])

\* C1: a scale's tensor holds the entry of a box only if the box's anchor
\* index, chosen over the whole catalogue, is in that scale's mask, and
\* every entry written belongs to such a box; when the masks partition the
\* catalogue, the only box of an image is written once, in one tensor.
C1_MaskFiltering ==
    status = "ready" =>
      \A k \in FileNos :
        LET y_train == MatchAnchors(bboxes[k])
        IN  /\ \A s \in Scales, i \in 1..Len(y_train) :
                 HoldsRow(labels[k][s], y_train[i])
                    => InMask(y_train[i][6], anchor_masks[s])
            /\ \A s \in Scales : \A key \in Written(labels[k][s]) :
                 \E i \in 1..Len(y_train) :
                    /\ labels[k][s].cells[key] = EntryOf(y_train[i])
                    /\ InMask(y_train[i][6], anchor_masks[s])
            /\ (MasksPartition /\ Len(y_train) = 1) =>
                 \E s \in Scales :
                    /\ Cardinality(Written(labels[k][s])) = 1
                    /\ \A o \in Scales \ {s} : Written(labels[k][o]) = {}

\* A lone box matched to an anchor of the finest mask only: the two
\* coarser tensors are all zero and the finest holds one entry.
C1_Witness ==
    /\ status = "ready"
    /\ anchor_masks = PartitionMasks
    /\ \E k \in FileNos :
         /\ Len(bboxes[k]) = 1
         /\ InMask(BestAnchor(bboxes[k][1], anchors), anchor_masks[3])
         /\ Written(labels[k][1]) = {}
         /\ Written(labels[k][2]) = {}
         /\ Cardinality(Written(labels[k][3])) = 1

\* C2: every box of positive width and height gets the lowest index among
\* the anchors of largest shape-only IoU over the whole catalogue: both the
\* index transform_label appends and the one an entry's slot stands for.
C2_GlobalArgMax ==
    status = "ready" =>
      \A k \in FileNos :
        /\ \A i \in 1..Len(bboxes[k]) :
             Positive(bboxes[k][i]) =>
               IsLowestBest(MatchAnchors(bboxes[k])[i][6],
                            bboxes[k][i][3], bboxes[k][i][4])
        /\ \A s \in Scales : \A key \in Written(labels[k][s]) :
             LET e == labels[k][s].cells[key]
             IN  Positive(e) =>
                   IsLowestBest(anchor_masks[s][key[3] + 1], e[3], e[4])

\* A box against which several anchors, of different masks, have the same
\* largest IoU, written in the slot of the lowest of them.
C2_Witness ==
    /\ status = "ready"
    /\ \E k \in FileNos, s \in Scales :
         \E key \in Written(labels[k][s]) :
           LET e == labels[k][s].cells[key]
               a == anchor_masks[s][key[3] + 1]
           IN  /\ Positive(e)
               /\ \E j \in 0..(Len(anchors) - 1) :
                    /\ j > a
                    /\ ~InMask(j, anchor_masks[s])
                    /\ ShapeIoU(e[3], e[4], anchors[j + 1][1], anchors[j + 1][2])
                         = ShapeIoU(e[3], e[4], anchors[a + 1][1], anchors[a + 1][2])

\* C3: every entry is (center_x, center_y, width, height, 1, class_id) of
\* a box whose anchor is the slot's, and lies at cell_y = floor(center_y *
\* grid_size), cell_x = floor(center_x * grid_size); the last box of an
\* image whose anchor is in the mask is there.
C3_GridPlacement ==
    status = "ready" =>
      \A k \in FileNos, s \in Scales :
        LET t == labels[k][s]
            g == t.shape[1]
            y_train == MatchAnchors(bboxes[k])
            n == Len(y_train)
        IN  /\ \A key \in Written(t) :
                 /\ key[1] = RFloor(RMul(t.cells[key][2], RInt(g)))
                 /\ key[2] = RFloor(RMul(t.cells[key][1], RInt(g)))
                 /\ t.cells[key][5] = ROne
                 /\ \E i \in 1..n :
                      /\ t.cells[key] = <<y_train[i][1], y_train[i][2],
                                          y_train[i][3], y_train[i][4],
                                          ROne, y_train[i][5]>>
                      /\ anchor_masks[s][key[3] + 1] = y_train[i][6]
            /\ (n > 0 /\ InMask(y_train[n][6], anchor_masks[s])) =>
                 At(t, RFloor(RMul(y_train[n][2], RInt(g))),
                       RFloor(RMul(y_train[n][1], RInt(g))),
                       SlotOf(anchor_masks[s], y_train[n][6]))
                   = <<y_train[n][1], y_train[n][2], y_train[n][3],
                       y_train[n][4], ROne, y_train[n][5]>>

\* C4: three tensors per image, the first of grid ceil(input_size / 32),
\* each next of twice the grid, each of shape [grid, grid, mask size, 6];
\* 13, 26, 52 for the input size (416, 416).
C4_Shapes ==
    status = "ready" =>
      \A k \in FileNos :
        /\ Len(labels[k]) = 3
        /\ LET g1 == labels[k][1].shape[1]
           IN  /\ Stride * g1 >= image_input_size[1]
               /\ Stride * (g1 - 1) < image_input_size[1]
               /\ \A s \in 1..3 :
                    labels[k][s].shape =
                      <<g1 * 2 ^ (s - 1), g1 * 2 ^ (s - 1),
                        Len(anchor_masks[s]), 6>>
        /\ image_input_size = <<416, 416>> =>
             /\ labels[k][1].shape[1] = 13
             /\ labels[k][2].shape[1] = 26
             /\ labels[k][3].shape[1] = 52

\* An image encoded for the input size (416, 416).
C4_Witness ==
    /\ status = "ready"
    /\ image_input_size = <<416, 416>>
    /\ Len(labels) = 1
    /\ Len(labels[1]) = 3
    /\ labels[1][3].shape = <<52, 52, 2, 6>>

\* 1 < a for a binary64 number a >= 0.
F64AboveOne(a) ==
    /\ a.m # <<>>
    /\ \/ a.e > -52
       \/ a.e = -52 /\ \E i \in 2..Len(a.m) : a.m[i] = 1

\* C5: the coordinates resize_label returns for a box that lies within
\* the image are in [0, 1].
C5_InUnitInterval ==
    f64_result # <<>> =>
      \A c \in 1..4 : ~F64AboveOne(f64_result[1][c])

\* The image of label file k is as large as the target.
TargetIsOriginal(k) ==
    images[label_files[k][2]] = <<image_input_size[2], image_input_size[1]>>
\* The pixel-space boxes of label file k.
PixelBoxes(k) ==
    LET lines == annotations[label_files[k][2]]
    IN  [i \in 1..Len(lines) |-> ParseLine(lines[i])]

\* C6: when the target dimensions equal the image's, the boxes come out of
\* resize_label as they went in.
C6_Unchanged ==
    status = "ready" =>
      \A k \in FileNos :
        TargetIsOriginal(k) =>
          \A i \in 1..Len(bboxes[k]) :
            <<bboxes[k][i][1], bboxes[k][i][2], bboxes[k][i][3],
              bboxes[k][i][4]>> = PixelBoxes(k)[i]

\* C6 as amended: when the target dimensions equal the image's, every box
\* (cx, cy, w, h) comes out as (cx / target_w, cy / target_h, w / target_w,
\* h / target_h).
C6_DividedByTarget ==
    status = "ready" =>
      \A k \in FileNos :
        TargetIsOriginal(k) =>
          \A i \in 1..Len(bboxes[k]) :
            LET p == PixelBoxes(k)[i]
                tw == image_input_size[2]
                th == image_input_size[1]
            IN  /\ bboxes[k][i][1] = Rat(p[1][1], p[1][2] * tw)
                /\ bboxes[k][i][2] = Rat(p[2][1], p[2][2] * th)
                /\ bboxes[k][i][3] = Rat(p[3][1], p[3][2] * tw)
                /\ bboxes[k][i][4] = Rat(p[4][1], p[4][2] * th)

\* An image as large as a target that is not square, with a box.
C6_Witness ==
    /\ status = "ready"
    /\ image_input_size = <<4, 8>>
    /\ \E k \in FileNos :
         /\ TargetIsOriginal(k)
         /\ \E i \in 1..Len(bboxes[k]) : Positive(bboxes[k][i])

\* Whether a line's extent has no width or no height.
Degenerate(line) ==
    \/ \A a, b \in {1, 3, 5, 7} : line[a] = line[b]
    \/ \A a, b \in {2, 4, 6, 8} : line[a] = line[b]

\* C7: a box of width or height <= 0 is rejected before anchor matching:
\* set-up does not complete on an annotation that has one, and no such box
\* is among the matched boxes or in a tensor.
C7_DegenerateRejected ==
    status = "ready" =>
      /\ \A id \in DOMAIN annotations :
           \A i \in 1..Len(annotations[id]) : ~Degenerate(annotations[id][i])
      /\ \A k \in FileNos :
           /\ \A i \in 1..Len(bboxes[k]) : Positive(bboxes[k][i])
           /\ \A s \in Scales : \A key \in Written(labels[k][s]) :
                Positive(labels[k][s].cells[key])

\* C8: set-up never completes with filenames and labels of different
\* lengths, or with an image and an annotation that do not pair.
C8_NoPartialDataset ==
    status = "ready" =>
      /\ Len(filenames) = Len(labels)
      /\ \A k \in 1..Len(filenames) : filenames[k][2] = label_files[k][2]

\* C9: a sample's index is in [0, num_images), its image is that image's
\* path, and its three tensors are those of the annotation file that has
\* the image's identifier, coarse to fine.
C9_SamplePaired ==
    sample # <<>> =>
      LET smp == sample[1]
          id == smp.image[2]
      IN  /\ smp.index \in 0..(Len(filenames) - 1)
          /\ smp.image = filenames[smp.index + 1]
          /\ \E k \in FileNos :
               /\ label_files[k][2] = id
               /\ smp.scale_1_label = labels[k][1]
               /\ smp.scale_2_label = labels[k][2]
               /\ smp.scale_3_label = labels[k][3]
               /\ labels[k] = TransformLabel(ReadLabelFile(label_files[k]).out).out

\* C10: once set_dataset_info has returned, no pull raises.
C10_NoPullRaises ==
    status = "ready" => gen # "raised"

\* The grid of scale s, and whether row, with its anchor index appended, is
\* written at index key = (cell_y, cell_x, slot) of that scale's tensor.
GridOfScale(s) == GridSize(image_input_size) * 2 ^ (s - 1)
MapsTo(row, s, key) ==
    /\ InMask(row[6], anchor_masks[s])
    /\ key = <<FloorDivide(row[2], GridOfScale(s)),
               FloorDivide(row[1], GridOfScale(s)),
               SlotOf(anchor_masks[s], row[6])>>
\* Whether row falls outside the grid of a scale whose mask has its anchor.
OutsideGrid(row, s) ==
    /\ InMask(row[6], anchor_masks[s])
    /\ \/ FloorDivide(row[1], GridOfScale(s)) >= GridOfScale(s)
       \/ FloorDivide(row[2], GridOfScale(s)) >= GridOfScale(s)

\* C11: every index (cell_y, cell_x, slot) that boxes of an image map to at
\* a scale holds exactly the entry of the last of those boxes in iteration
\* order, whatever the earlier ones were; and encoding raises only for a
\* box that falls outside the grid, never for boxes that share an index.
C11_LastBoxWins ==
    /\ status = "ready" =>
         \A k \in FileNos :
           LET y_train == MatchAnchors(bboxes[k])
           IN  \A s \in Scales : \A i \in 1..Len(y_train) :
                 \A key \in Written(labels[k][s]) :
                   (/\ MapsTo(y_train[i], s, key)
                    /\ \A j \in (i + 1)..Len(y_train) :
                          ~MapsTo(y_train[j], s, key))
                     => labels[k][s].cells[key] = EntryOf(y_train[i])
    /\ status = "ready" =>
         \A k \in FileNos :
           LET y_train == MatchAnchors(bboxes[k])
           IN  \A s \in Scales : \A i \in 1..Len(y_train) :
                 InMask(y_train[i][6], anchor_masks[s]) =>
                   \E key \in Written(labels[k][s]) :
                     MapsTo(y_train[i], s, key)
    /\ (status = "failed" /\ error = "IndexError") =>
         \E k \in 1..Len(label_files) :
           LET y_train == MatchAnchors(ReadLabelFile(label_files[k]).out)
           IN  \E s \in Scales : \E i \in 1..Len(y_train) :
                 OutsideGrid(y_train[i], s)

\* Two boxes of one image that differ and map to the same index at a scale,
\* encoded without an error: the index holds the later box's entry.
C11_Witness ==
    /\ status = "ready"
    /\ \E k \in FileNos :
         LET y_train == MatchAnchors(bboxes[k])
         IN  \E s \in Scales : \E key \in Written(labels[k][s]) :
               \E i \in 1..Len(y_train) : \E j \in (i + 1)..Len(y_train) :
                 /\ MapsTo(y_train[i], s, key)
                 /\ MapsTo(y_train[j], s, key)
                 /\ EntryOf(y_train[i]) # EntryOf(y_train[j])
                 /\ labels[k][s].cells[key] = EntryOf(y_train[j])

====
